---- MODULE Spec2Model ----
(***************************************************************************)
(* PostgresLevel / PostgresIterator: an abstract-level store kept in the   *)
(* table tina_kv(namespace, key, value) of a PostgreSQL database.          *)
(*                                                                         *)
(* Keys are strings, modelled as sequences of character codes, compared    *)
(* the way the backend compares TEXT under a byte-wise collation.  Values  *)
(* are strings.  The table is a set of rows; the primary key of the        *)
(* schema is what the statements have to maintain, it is not built into    *)
(* the representation.                                                     *)
(***************************************************************************)
EXTENDS Integers, Sequences, FiniteSets, TLC

VARIABLES table, prev, last, batch, checkedOut, shadow, latest, it, delivered,
          initialized, schema, puts

vars == <<table, prev, last, batch, checkedOut, shadow, latest, it, delivered,
          initialized, schema, puts>>

storeVars ==
    <<table, prev, last, batch, checkedOut, shadow, latest, initialized, schema, puts>>
scanVars == <<it, delivered>>

----------------------------------------------------------------------------
(* Bounds of the model *)

MaxBatchLen == 2
MaxGetMany == 2
MaxLimit == 1
MaxEnds == 2

----------------------------------------------------------------------------
(* Program constants and the value universe *)

DEFAULT_LIMIT == 50

namespace == "level"
OtherNamespace == "other"

\* JavaScript `undefined` for a key: a sequence that is no string (0 is no character code)
undefinedKey == <<0>>
\* JavaScript `undefined` for a value / callback argument
undefinedValue == "<undefined>"

\* options.limit: a number or Infinity
Infinity == [finite |-> FALSE, n |-> 0]
Num(n) == [finite |-> TRUE, n |-> n]

NoError == "none"
LEVEL_NOT_FOUND == "LEVEL_NOT_FOUND"
BackendError == "BackendError"
PoolError == "PoolError"
\* unique_violation of the primary key (namespace, key)
UniqueViolation == "23505"

KeyA == <<97>>
KeyAB == <<97, 98>>
KeyB == <<98>>
KeyC == <<99>>
KeyD == <<100>>
KeyE == <<101>>

Keys == {KeyA, KeyAB, KeyB}
Values == {"", "v"}

Min(a, b) == IF a < b THEN a ELSE b

----------------------------------------------------------------------------
(* The backend: TEXT comparison, WHERE / ORDER BY / LIMIT / OFFSET *)

\* a < b for TEXT under a byte-wise collation
LexLess(a, b) ==
    \E i \in 1..Len(b) :
        /\ i - 1 <= Len(a)
        /\ \A j \in 1..(i - 1) : a[j] = b[j]
        /\ (i = Len(a) + 1 \/ (i <= Len(a) /\ a[i] < b[i]))

LexLeq(a, b) == a = b \/ LexLess(a, b)

\* a bug: gte and lte translated to the strict comparisons
ConditionsExclusive(o, ns, r) ==
    /\ r.namespace = ns
    /\ IF o.gt # undefinedKey THEN LexLess(o.gt, r.key)
       ELSE IF o.gte # undefinedKey THEN LexLess(o.gte, r.key)
       ELSE TRUE
    /\ IF o.lt # undefinedKey THEN LexLess(r.key, o.lt)
       ELSE IF o.lte # undefinedKey THEN LexLess(r.key, o.lte)
       ELSE TRUE

\* conditions.join(' AND ') as built from the range options: gt shadows gte, lt shadows lte
Conditions(o, ns, r) ==
    /\ r.namespace = ns
    /\ IF o.gt # undefinedKey THEN LexLess(o.gt, r.key)
       ELSE IF o.gte # undefinedKey THEN LexLeq(o.gte, r.key)
       ELSE TRUE
    /\ IF o.lt # undefinedKey THEN LexLess(r.key, o.lt)
       ELSE IF o.lte # undefinedKey THEN LexLeq(r.key, o.lte)
       ELSE TRUE

\* ORDER BY key ASC|DESC over a set of rows
OrderBy(rows, reverse) ==
    LET before(x, y) == IF reverse THEN LexLess(y.key, x.key) ELSE LexLess(x.key, y.key)
        ranked == {<<Cardinality({y \in rows : before(y, x)}), x>> : x \in rows}
    IN  [i \in 1..Cardinality(rows) |-> (CHOOSE p \in ranked : p[1] = i - 1)[2]]

\* a bug: the offset is applied one row short, so a page repeats a row
LimitOffsetOneShort(s, n, o) == SubSeq(s, IF o = 0 THEN 1 ELSE o, Min(Len(s), o + n))

\* LIMIT n OFFSET o of an ordered result
LimitOffset(s, n, o) == SubSeq(s, o + 1, Min(Len(s), o + n))

\* SELECT ... WHERE conditions ORDER BY key dir LIMIT n OFFSET o
SelectPage(t, o, ns, n, off) ==
    LimitOffset(OrderBy({r \in t : Conditions(o, ns, r)}, o.reverse), n, off)

Range(s) == {s[i] : i \in DOMAIN s}

----------------------------------------------------------------------------
(* Statements of the store *)

Row(ns, k, v) == [namespace |-> ns, key |-> k, value |-> v]

\* a bug: ON CONFLICT DO NOTHING keeps the old row
UpsertDoNothing(t, ns, k, v) ==
    IF \E r \in t : r.namespace = ns /\ r.key = k THEN t ELSE t \cup {Row(ns, k, v)}

\* INSERT ... ON CONFLICT (namespace, key) DO UPDATE SET value = EXCLUDED.value
Upsert(t, ns, k, v) ==
    {r \in t : ~(r.namespace = ns /\ r.key = k)} \cup {Row(ns, k, v)}

\* a bug: key <= $2 instead of key = $2
DeleteKeyUpTo(t, ns, k) == {r \in t : ~(r.namespace = ns /\ LexLeq(r.key, k))}

\* DELETE FROM tina_kv WHERE namespace = $1 AND key = $2
DeleteKey(t, ns, k) == {r \in t : ~(r.namespace = ns /\ r.key = k)}

\* a bug: the statement does not filter by namespace
SelectValueAnyNamespace(t, ns, k) == {r \in t : r.key = k}

\* SELECT value FROM tina_kv WHERE namespace = $1 AND key = $2
SelectValue(t, ns, k) == {r \in t : r.namespace = ns /\ r.key = k}

\* SELECT key, value FROM tina_kv WHERE namespace = $1 AND key IN (...)
SelectIn(t, ns, ks) == {r \in t : r.namespace = ns /\ r.key \in Range(ks)}

\* options.limit !== Infinity && options.limit >= 0
IsBoundedLimit(l) == l.finite /\ l.n >= 0

\* a bug: the sub-select ignores options.reverse
ClearTargetsAscending(t, o, ns) ==
    IF IsBoundedLimit(o.limit)
    THEN LET sel == Range(SelectPage(t, [o EXCEPT !.reverse = FALSE], ns, o.limit.n, 0))
         IN  {r \in t : \E s \in sel : s.namespace = r.namespace /\ s.key = r.key}
    ELSE {r \in t : Conditions(o, ns, r)}

\* the rows the DELETE of _clear removes
ClearTargets(t, o, ns) ==
    IF IsBoundedLimit(o.limit)
    THEN LET sel == Range(SelectPage(t, o, ns, o.limit.n, 0))
         IN  {r \in t : \E s \in sel : s.namespace = r.namespace /\ s.key = r.key}
    ELSE {r \in t : Conditions(o, ns, r)}

\* a bug: only the values that were found are returned
GetManyValuesCompact(rows, ks) ==
    LET hit(k) == \E r \in rows : r.key = k
        found == SelectSeq(ks, hit)
    IN  [i \in 1..Len(found) |-> (CHOOSE r \in rows : r.key = found[i]).value]

\* a bug: a missing key is answered with an empty value instead of an error
GetOutcomeSentinel(rows) ==
    IF Cardinality(rows) > 0
    THEN [err |-> NoError, value |-> (CHOOSE r \in rows : TRUE).value]
    ELSE [err |-> NoError, value |-> ""]

\* _get: rows[0].value, or LevelError LEVEL_NOT_FOUND when no row matches
GetOutcome(rows) ==
    IF Cardinality(rows) > 0
    THEN [err |-> NoError, value |-> (CHOOSE r \in rows : TRUE).value]
    ELSE [err |-> LEVEL_NOT_FOUND, value |-> undefinedValue]

\* valueMap of _getMany, then keys.map(key => valueMap.get(key))
GetManyValues(rows, ks) ==
    [i \in 1..Len(ks) |->
        IF \E r \in rows : r.key = ks[i]
        THEN (CHOOSE r \in rows : r.key = ks[i]).value
        ELSE undefinedValue]

----------------------------------------------------------------------------
(* Inputs *)

Limits == {Infinity} \cup {Num(n) : n \in -1..MaxLimit}

NoOpts == [gt |-> undefinedKey, gte |-> undefinedKey, lt |-> undefinedKey,
           lte |-> undefinedKey, limit |-> Infinity, reverse |-> FALSE,
           keys |-> TRUE, values |-> TRUE]

\* <<gt, gte>> and <<lt, lte>> as a caller may set them, also both of a pair
LowerBounds == {<<undefinedKey, undefinedKey>>, <<KeyAB, undefinedKey>>,
                <<undefinedKey, KeyAB>>, <<KeyA, KeyB>>}
UpperBounds == {<<undefinedKey, undefinedKey>>, <<KeyAB, undefinedKey>>,
                <<undefinedKey, KeyAB>>, <<KeyB, KeyA>>}

ClearOpts == {[NoOpts EXCEPT !.gt = lo[1], !.gte = lo[2], !.lt = hi[1], !.lte = hi[2],
                             !.limit = l, !.reverse = rv] :
                 lo \in LowerBounds, hi \in UpperBounds, l \in Limits, rv \in BOOLEAN}

PutOp(k, v) == [type |-> "put", key |-> k, value |-> v]
DelOp(k) == [type |-> "del", key |-> k, value |-> undefinedValue]
BatchKeys == {KeyA, KeyAB}
BatchOps == {PutOp(k, v) : k \in BatchKeys, v \in Values} \cup {DelOp(k) : k \in BatchKeys}

SeqsUpTo(S, n) == UNION {[1..m -> S] : m \in 0..n}

----------------------------------------------------------------------------
(* The record of the last completed call and its callback *)

NoLast == [op |-> "none", key |-> undefinedKey, keys |-> <<>>, value |-> undefinedValue,
           values |-> <<>>, opts |-> NoOpts, ops |-> <<>>, err |-> NoError,
           queries |-> 0, cb |-> 0, failed |-> FALSE, inflight |-> FALSE, applied |-> 0,
           noneView |-> <<>>, allView |-> <<>>, ddl |-> 0]

\* the call whose one statement failed: callback(e)
Failed(op, e) == [NoLast EXCEPT !.op = op, !.err = e, !.queries = 1, !.cb = 1,
                                !.failed = TRUE]

NoOverlay == [k \in Keys |-> [kind |-> "none", value |-> undefinedValue]]

IdleBatch == [pc |-> "idle", ops |-> <<>>, i |-> 1, overlay |-> NoOverlay,
              err |-> NoError, queries |-> 0]

\* callers that do not wait for one another, and the put each has under way
Callers == {1, 2}
NoPut == [pc |-> "idle", key |-> undefinedKey, value |-> undefinedValue,
          err |-> NoError, raced |-> FALSE]
NoPuts == [c \in Callers |-> NoPut]

\* the schema of a database in which nothing has been created yet
NoSchema == [table |-> FALSE, index |-> FALSE]
\* the schema after both statements of ensureTable
FullSchema == [table |-> TRUE, index |-> TRUE]

\* how a statement on tina_kv can end: it fails for certain while the table is missing
StatementOutcomes == IF schema.table THEN BOOLEAN ELSE {FALSE}

\* a row written by the open transaction is locked until the transaction ends
Locked(k) == batch.overlay[k].kind # "none"

\* the whole batch applied statement by statement
RECURSIVE ApplyOps(_, _, _)
ApplyOps(t, ns, ops) ==
    IF ops = <<>> THEN t
    ELSE LET op == Head(ops)
             t1 == IF op.type = "put" THEN Upsert(t, ns, op.key, op.value)
                   ELSE DeleteKey(t, ns, op.key)
         IN  ApplyOps(t1, ns, Tail(ops))

InFlight == batch.pc \in {"begin", "ops", "commit", "rollback"}

\* statements of the open transaction that have been executed
Applied == IF batch.pc \in {"ops", "commit"} THEN batch.i - 1 ELSE 0

\* what a reader of the namespace is entitled to see for the keys ks in table t
View(t, ks) ==
    [i \in 1..Len(ks) |->
        IF \E r \in t : r.namespace = namespace /\ r.key = ks[i]
        THEN (CHOOSE r \in t : r.namespace = namespace /\ r.key = ks[i]).value
        ELSE undefinedValue]

Observed(ks) ==
    [noneView |-> View(shadow, ks), allView |-> View(ApplyOps(shadow, namespace, batch.ops), ks)]

----------------------------------------------------------------------------
(* What the callers were promised: the range predicate, the keys a clear   *)
(* removes, and the most recent write of every key.  These are written    *)
(* from the contract and are never used to compute a next state of the    *)
(* table.                                                                  *)

\* k satisfies the range: gt before gte and lt before lte when both of a pair are set
Matches(o, k) ==
    /\ (o.gt # undefinedKey => LexLess(o.gt, k))
    /\ (o.gt = undefinedKey /\ o.gte # undefinedKey => ~LexLess(k, o.gte))
    /\ (o.lt # undefinedKey => LexLess(k, o.lt))
    /\ (o.lt = undefinedKey /\ o.lte # undefinedKey => ~LexLess(o.lte, k))

\* k satisfies each bound that is set
StatedMatches(o, k) ==
    /\ (o.gt = undefinedKey \/ LexLess(o.gt, k))
    /\ (o.gte = undefinedKey \/ ~LexLess(k, o.gte))
    /\ (o.lt = undefinedKey \/ LexLess(k, o.lt))
    /\ (o.lte = undefinedKey \/ ~LexLess(o.lte, k))

\* a comes before b in scan order
ScansBefore(o, a, b) == IF o.reverse THEN LexLess(b, a) ELSE LexLess(a, b)

\* the first L matching keys in scan order (all of them without a limit) among ks
FirstMatching(ks, o) ==
    LET m == {k \in ks : Matches(o, k)}
    IN  IF IsBoundedLimit(o.limit)
        THEN {k \in m : Cardinality({x \in m : ScansBefore(o, x, k)}) < o.limit.n}
        ELSE m

ClearedKeys(l, o) == FirstMatching({k \in Keys : l[k] # undefinedValue}, o)

\* the value the last operation of ops naming k leaves, old when none names it
RECURSIVE LastNaming(_, _, _)
LastNaming(ops, k, old) ==
    IF ops = <<>> THEN old
    ELSE LET op == ops[Len(ops)]
         IN  IF op.key = k
             THEN (IF op.type = "put" THEN op.value ELSE undefinedValue)
             ELSE LastNaming(SubSeq(ops, 1, Len(ops) - 1), k, old)

----------------------------------------------------------------------------
(* Point operations: one statement on the pool, then the callback *)

\* _get
Get(k) ==
    \E ok \in StatementOutcomes :
        LET rows == SelectValue(table, namespace, k)
            seen == Observed(<<k>>)
        IN  /\ last' =
                 IF ~ok THEN Failed("get", BackendError)
                 ELSE [NoLast EXCEPT
                         !.op = "get", !.key = k, !.queries = 1, !.cb = 1,
                         !.err = GetOutcome(rows).err,
                         !.value = GetOutcome(rows).value,
                         !.inflight = InFlight, !.applied = Applied,
                         !.noneView = seen.noneView, !.allView = seen.allView]
            /\ prev' = table
            /\ UNCHANGED <<table, batch, checkedOut, shadow, latest, it, delivered, initialized, schema, puts>>

----------------------------------------------------------------------------
(* ensureTable, _open, _close *)

\* how the two statements of ensureTable can end
DdlOutcomes == {"tableFails", "indexFails", "ok"}

\* a bug: the flag is set as soon as the table exists
EnsureTableEager(ready, sch, outcome) ==
    IF ready THEN [initialized |-> TRUE, schema |-> sch, err |-> NoError, ddl |-> 0]
    ELSE IF outcome = "tableFails"
    THEN [initialized |-> FALSE, schema |-> sch, err |-> BackendError, ddl |-> 1]
    ELSE IF outcome = "indexFails"
    THEN [initialized |-> TRUE, schema |-> [sch EXCEPT !.table = TRUE],
          err |-> BackendError, ddl |-> 2]
    ELSE [initialized |-> TRUE, schema |-> FullSchema, err |-> NoError, ddl |-> 2]

\* ensureTable: nothing when the flag is set; else CREATE TABLE IF NOT EXISTS,
\* CREATE INDEX IF NOT EXISTS, then the flag; a failure is rethrown
EnsureTable(ready, sch, outcome) ==
    IF ready THEN [initialized |-> TRUE, schema |-> sch, err |-> NoError, ddl |-> 0]
    ELSE IF outcome = "tableFails"
    THEN [initialized |-> FALSE, schema |-> sch, err |-> BackendError, ddl |-> 1]
    ELSE IF outcome = "indexFails"
    THEN [initialized |-> FALSE, schema |-> [sch EXCEPT !.table = TRUE],
          err |-> BackendError, ddl |-> 2]
    ELSE [initialized |-> TRUE, schema |-> FullSchema, err |-> NoError, ddl |-> 2]

\* _open: await ensureTable(), callback() or callback(e)
Open ==
    \E outcome \in DdlOutcomes :
        LET e == EnsureTable(initialized, schema, outcome)
        IN  /\ initialized' = e.initialized
            /\ schema' = e.schema
            /\ last' = [NoLast EXCEPT !.op = "open", !.err = e.err, !.cb = 1,
                                      !.ddl = e.ddl, !.failed = e.err # NoError]
            /\ prev' = table
            /\ UNCHANGED <<table, batch, checkedOut, shadow, latest, it, delivered, puts>>

\* _close: the pool stays open, the flag stays as it is
Close ==
    /\ last' = [NoLast EXCEPT !.op = "close", !.cb = 1]
    /\ prev' = table
    /\ UNCHANGED <<table, batch, checkedOut, shadow, latest, it, delivered,
                   initialized, schema, puts>>

\* _getMany
GetMany(ks) ==
    \E ok \in StatementOutcomes :
        LET seen == Observed(ks)
        IN  /\ last' =
                 IF Len(ks) = 0
                 THEN [NoLast EXCEPT !.op = "getMany", !.keys = ks, !.cb = 1,
                                     !.inflight = InFlight]
                 ELSE IF ~ok THEN Failed("getMany", BackendError)
                 ELSE [NoLast EXCEPT
                         !.op = "getMany", !.keys = ks, !.queries = 1, !.cb = 1,
                         !.values = GetManyValues(SelectIn(table, namespace, ks), ks),
                         !.inflight = InFlight, !.applied = Applied,
                         !.noneView = seen.noneView, !.allView = seen.allView]
            /\ prev' = table
            /\ UNCHANGED <<table, batch, checkedOut, shadow, latest, it, delivered, initialized, schema, puts>>

\* _put
Put(k, v) ==
    /\ ~Locked(k)
    /\ \E ok \in StatementOutcomes :
        /\ table' = IF ok THEN Upsert(table, namespace, k, v) ELSE table
        /\ shadow' = IF ok THEN Upsert(shadow, namespace, k, v) ELSE shadow
        /\ latest' = IF ok THEN [latest EXCEPT ![k] = v] ELSE latest
        /\ last' = IF ~ok THEN Failed("put", BackendError)
                   ELSE [NoLast EXCEPT !.op = "put", !.key = k, !.value = v,
                                       !.queries = 1, !.cb = 1]
        /\ prev' = table
        /\ UNCHANGED <<batch, checkedOut, it, delivered, initialized, schema, puts>>

\* a bug: a plain INSERT, which fails on a key that has a row
InsertConflictPlain(t, ns, k) == SelectValue(t, ns, k) # {}

\* ON CONFLICT (namespace, key) DO UPDATE: a row with the key is no error
InsertConflict(t, ns, k) == FALSE

\* _put called once by a caller that does not wait for the other callers: the
\* call is under way until its statement has run
PutCall(c, k, v) ==
    /\ puts[c].pc = "idle"
    /\ puts' = [d \in Callers |->
                  IF d = c
                  THEN [pc |-> "sent", key |-> k, value |-> v, err |-> NoError,
                        raced |-> \E e \in Callers \ {c} : puts[e].pc = "sent"]
                  ELSE IF puts[d].pc = "sent" THEN [puts[d] EXCEPT !.raced = TRUE]
                  ELSE puts[d]]
    /\ UNCHANGED <<table, prev, last, batch, checkedOut, shadow, latest, it, delivered,
                   initialized, schema>>

\* the statement of that _put runs as one statement of the backend, and the
\* callback follows
PutReturn(c) ==
    /\ puts[c].pc = "sent"
    /\ ~Locked(puts[c].key)
    /\ \E ok \in StatementOutcomes :
        LET k == puts[c].key
            v == puts[c].value
            err == IF ~ok THEN BackendError
                   ELSE IF InsertConflict(table, namespace, k) THEN UniqueViolation
                   ELSE NoError
        IN  /\ table' = IF err = NoError THEN Upsert(table, namespace, k, v) ELSE table
            /\ shadow' = IF err = NoError THEN Upsert(shadow, namespace, k, v) ELSE shadow
            /\ latest' = IF err = NoError THEN [latest EXCEPT ![k] = v] ELSE latest
            /\ last' = IF err # NoError THEN Failed("put", err)
                       ELSE [NoLast EXCEPT !.op = "put", !.key = k, !.value = v,
                                           !.queries = 1, !.cb = 1]
            /\ prev' = table
            /\ puts' = [puts EXCEPT ![c].pc = "done", ![c].err = err]
            /\ UNCHANGED <<batch, checkedOut, it, delivered, initialized, schema>>

\* _del
Del(k) ==
    /\ ~Locked(k)
    /\ \E ok \in StatementOutcomes :
        /\ table' = IF ok THEN DeleteKey(table, namespace, k) ELSE table
        /\ shadow' = IF ok THEN DeleteKey(shadow, namespace, k) ELSE shadow
        /\ latest' = IF ok THEN [latest EXCEPT ![k] = undefinedValue] ELSE latest
        /\ last' = IF ~ok THEN Failed("del", BackendError)
                   ELSE [NoLast EXCEPT !.op = "del", !.key = k, !.queries = 1, !.cb = 1]
        /\ prev' = table
        /\ UNCHANGED <<batch, checkedOut, it, delivered, initialized, schema, puts>>

\* _clear
Clear(o) ==
    /\ \A r \in ClearTargets(table, o, namespace) : ~Locked(r.key)
    /\ \E ok \in StatementOutcomes :
        /\ table' = IF ok THEN table \ ClearTargets(table, o, namespace) ELSE table
        /\ shadow' = IF ~ok THEN shadow
                     ELSE IF shadow = table THEN table'
                     ELSE shadow \ ClearTargets(shadow, o, namespace)
        /\ latest' = IF ok
                     THEN [k \in Keys |-> IF k \in ClearedKeys(latest, o)
                                          THEN undefinedValue ELSE latest[k]]
                     ELSE latest
        /\ last' = IF ~ok THEN Failed("clear", BackendError)
                   ELSE [NoLast EXCEPT !.op = "clear", !.opts = o, !.queries = 1, !.cb = 1]
        /\ prev' = table
        /\ UNCHANGED <<batch, checkedOut, it, delivered, initialized, schema, puts>>

----------------------------------------------------------------------------
(* _batch: one checked-out client, BEGIN, the operations in list order,    *)
(* COMMIT; ROLLBACK in the catch block; release in the finally block.      *)
(* Every await is a step of its own.                                       *)

\* a bug: the transaction does not see the rows it has written itself
TxnVisibleCommittedOnly(t, ov, k) == SelectValue(t, namespace, k) # {}

\* does the open transaction see a row for k (committed rows plus its own writes)
TxnVisible(t, ov, k) ==
    \/ ov[k].kind = "put"
    \/ ov[k].kind = "none" /\ SelectValue(t, namespace, k) # {}

\* a bug: the statement is sent through the pool and commits on its own
BatchStatementAutocommit(t, ov, op) ==
    [table |-> ApplyOps(t, namespace, <<op>>), overlay |-> ov]

\* client.query of one operation inside the transaction: nothing is committed yet
BatchStatement(t, ov, op) ==
    [table |-> t,
     overlay |->
        IF op.type = "put"
        THEN [ov EXCEPT ![op.key] = [kind |-> "put", value |-> op.value]]
        ELSE IF TxnVisible(t, ov, op.key)
             THEN [ov EXCEPT ![op.key] = [kind |-> "del", value |-> undefinedValue]]
             ELSE ov]

\* COMMIT: the writes of the transaction become the committed rows
CommitTxn(t, ov) ==
    {r \in t : r.namespace # namespace \/ ov[r.key].kind = "none"}
        \cup {Row(namespace, k, ov[k].value) : k \in {x \in Keys : ov[x].kind = "put"}}

\* the outcome of a batch that got its client; cb counts the calls of the callback
BatchDone(err, cb, failed) ==
    [NoLast EXCEPT !.op = "batch", !.ops = IF failed THEN <<>> ELSE batch.ops,
                   !.err = err, !.cb = cb, !.failed = failed,
                   !.queries = IF failed THEN 1 ELSE batch.queries + 1]

\* a bug: release in the try and catch bodies only, skipped when one throws
ReleaseUnlessThrown(n, threw) == IF threw THEN n ELSE n - 1

\* finally { client.release() }: runs however the try or the catch block ended
ReleaseClient(n, threw) == n - 1

\* entry of _batch; an empty batch calls back at once
BatchStart(ops) ==
    /\ batch.pc = "idle"
    /\ prev' = table
    /\ IF Len(ops) = 0
       THEN /\ last' = [NoLast EXCEPT !.op = "batch", !.ops = ops, !.cb = 1]
            /\ batch' = IdleBatch
       ELSE /\ batch' = [IdleBatch EXCEPT !.pc = "connect", !.ops = ops]
            /\ last' = NoLast
    /\ UNCHANGED <<table, checkedOut, shadow, latest, it, delivered, initialized, schema, puts>>

\* await this.pool.connect(), outside the try block
BatchConnect ==
    /\ batch.pc = "connect"
    /\ \E ok \in BOOLEAN :
        IF ok
        THEN /\ batch' = [batch EXCEPT !.pc = "begin"]
             /\ checkedOut' = checkedOut + 1
             /\ UNCHANGED last
        ELSE /\ batch' = IdleBatch
             /\ last' = [NoLast EXCEPT !.op = "batch", !.err = PoolError, !.cb = 0,
                                       !.failed = TRUE]
             /\ UNCHANGED checkedOut
    /\ UNCHANGED <<table, prev, shadow, latest, it, delivered, initialized, schema, puts>>

\* await client.query('BEGIN')
BatchBegin ==
    /\ batch.pc = "begin"
    /\ \E ok \in BOOLEAN :
        batch' = IF ok THEN [batch EXCEPT !.pc = "ops", !.queries = @ + 1]
                 ELSE [batch EXCEPT !.pc = "rollback", !.queries = @ + 1,
                                    !.err = BackendError]
    /\ UNCHANGED <<table, prev, last, checkedOut, shadow, latest, it, delivered, initialized, schema, puts>>

\* one iteration of the for loop
BatchOp ==
    /\ batch.pc = "ops"
    /\ \E ok \in StatementOutcomes :
        IF ok
        THEN LET w == BatchStatement(table, batch.overlay, batch.ops[batch.i])
             IN  /\ table' = w.table
                 /\ batch' = [batch EXCEPT
                        !.overlay = w.overlay, !.i = @ + 1, !.queries = @ + 1,
                        !.pc = IF batch.i = Len(batch.ops) THEN "commit" ELSE "ops"]
        ELSE /\ batch' = [batch EXCEPT !.pc = "rollback", !.queries = @ + 1,
                                        !.err = BackendError]
             /\ UNCHANGED table
    /\ UNCHANGED <<prev, last, checkedOut, shadow, latest, it, delivered, initialized, schema, puts>>

\* await client.query('COMMIT'), callback, finally release
BatchCommit ==
    /\ batch.pc = "commit"
    /\ \E ok \in BOOLEAN :
        IF ok
        THEN /\ table' = CommitTxn(table, batch.overlay)
             /\ shadow' = table'
             /\ latest' = [k \in Keys |-> LastNaming(batch.ops, k, latest[k])]
             /\ last' = BatchDone(NoError, 1, FALSE)
             /\ checkedOut' = ReleaseClient(checkedOut, FALSE)
             /\ batch' = IdleBatch
        ELSE /\ batch' = [batch EXCEPT !.pc = "rollback", !.queries = @ + 1,
                                        !.err = BackendError]
             /\ UNCHANGED <<table, shadow, latest, last, checkedOut>>
    /\ UNCHANGED <<prev, it, delivered, initialized, schema, puts>>

\* catch: await client.query('ROLLBACK'), callback(e); finally release.
\* A ROLLBACK that throws leaves the catch block before the callback.
BatchRollback ==
    /\ batch.pc = "rollback"
    /\ \E ok \in BOOLEAN :
        /\ last' = IF ok THEN BatchDone(batch.err, 1, TRUE)
                         ELSE BatchDone(batch.err, 0, TRUE)
        /\ checkedOut' = ReleaseClient(checkedOut, ~ok)
    /\ batch' = IdleBatch
    /\ shadow' = table
    /\ UNCHANGED <<table, prev, latest, it, delivered, initialized, schema, puts>>

----------------------------------------------------------------------------
(* PostgresIterator *)

NoCallback == [called |-> FALSE, error |-> NoError, key |-> undefinedKey,
               value |-> undefinedValue]

\* callback(undefined): end of sequence
EndCallback == [NoCallback EXCEPT !.called = TRUE]

\* a bug: the page size never exceeds DEFAULT_LIMIT
NewIteratorCapped(o) ==
    [opts |-> o,
     resultLimit |-> IF IsBoundedLimit(o.limit) THEN Min(o.limit.n, DEFAULT_LIMIT)
                     ELSE DEFAULT_LIMIT,
     offset |-> 0,
     results |-> <<>>,
     finished |-> FALSE,
     queries |-> 0, pages |-> 0, failed |-> FALSE, ends |-> 0, cb |-> NoCallback]

\* constructor
NewIterator(o) ==
    [opts |-> o,
     resultLimit |-> IF IsBoundedLimit(o.limit) THEN o.limit.n ELSE DEFAULT_LIMIT,
     offset |-> 0,
     results |-> <<>>,
     finished |-> FALSE,
     queries |-> 0, pages |-> 0, failed |-> FALSE, ends |-> 0, cb |-> NoCallback]

NoIterator == NewIterator(NoOpts)

\* resultItem pushed for one row of the page
ResultItem(o, row) ==
    [key |-> IF o.keys THEN row.key ELSE undefinedKey,
     value |-> IF o.values THEN row.value ELSE undefinedValue]

\* a bug: pop() instead of shift()
ShiftLast(results) ==
    [item |-> results[Len(results)], rest |-> SubSeq(results, 1, Len(results) - 1)]

\* this.results.shift() on the buffer a call finds filled: the oldest pair
\* and the buffer without it
Shift(results) == [item |-> results[1], rest |-> Tail(results)]

\* _iterator: a new PostgresIterator over the options
IterOpen(o) ==
    /\ it' = NewIterator(o)
    /\ delivered' = <<>>
    /\ UNCHANGED storeVars

\* a bug: the next page starts one row too far
NextOffsetSkipping(offset, resultLimit) == offset + resultLimit + 1

\* this.offset += this.resultLimit
NextOffset(offset, resultLimit) == offset + resultLimit

\* a bug: a page shorter than the page size ends the scan at once
ShortPageEndsScan(rows, resultLimit) == Len(rows) = 0 \/ Len(rows) < resultLimit

\* !result.rows || result.rows.length === 0
PageEndsScan(rows, resultLimit) == Len(rows) = 0

\* a bug: a failed page query is handed to the consumer
FailureCallbackRethrown == [EndCallback EXCEPT !.error = BackendError]

\* catch of the page query: callback(undefined)
FailureCallback == EndCallback

\* a bug: the catch reports end-of-sequence but leaves the iterator running
AfterFailureRunning(i) ==
    [i EXCEPT !.failed = TRUE, !.ends = @ + 1, !.cb = FailureCallback]

\* catch of the page query: finished = true, then the callback
AfterFailure(i) ==
    [i EXCEPT !.finished = TRUE, !.failed = TRUE, !.queries = @ + 1, !.ends = @ + 1,
              !.cb = FailureCallback]

\* _next
IterNext ==
    /\ it.ends < MaxEnds
    /\ IF it.finished
       THEN /\ it' = [it EXCEPT !.ends = @ + 1, !.cb = EndCallback]
            /\ UNCHANGED delivered
       ELSE IF Len(it.results) = 0
       THEN \E ok \in StatementOutcomes :
              LET rows == SelectPage(table, it.opts, namespace, it.resultLimit, it.offset)
                  items == [i \in 1..Len(rows) |-> ResultItem(it.opts, rows[i])]
              IN  IF ~ok
                  THEN /\ it' = AfterFailure(it)
                       /\ UNCHANGED delivered
                  ELSE IF PageEndsScan(rows, it.resultLimit)
                  THEN /\ it' = [it EXCEPT !.finished = TRUE, !.queries = @ + 1,
                                           !.ends = @ + 1, !.cb = EndCallback]
                       /\ UNCHANGED delivered
                  ELSE /\ it' = [it EXCEPT
                              !.results = Tail(items),
                              !.offset = NextOffset(it.offset, it.resultLimit),
                              !.queries = @ + 1, !.pages = @ + 1,
                              !.cb = [called |-> TRUE, error |-> NoError,
                                      key |-> items[1].key, value |-> items[1].value]]
                       /\ delivered' = Append(delivered, items[1])
       ELSE LET popped == Shift(it.results)
            IN  /\ it' = [it EXCEPT
                       !.results = popped.rest,
                       !.cb = [called |-> TRUE, error |-> NoError,
                               key |-> popped.item.key, value |-> popped.item.value]]
                /\ delivered' = Append(delivered, popped.item)
    /\ UNCHANGED storeVars

----------------------------------------------------------------------------
(* Specifications *)

\* rows of another store instance sharing the table
OtherRows == {Row(OtherNamespace, KeyA, "x"), Row(OtherNamespace, KeyB, "")}

\* a store whose open() has succeeded, on a table another namespace already uses
Init ==
    /\ table = OtherRows
    /\ prev = OtherRows
    /\ shadow = OtherRows
    /\ latest = [k \in Keys |-> undefinedValue]
    /\ last = NoLast
    /\ batch = IdleBatch
    /\ checkedOut = 0
    /\ it = NoIterator
    /\ delivered = <<>>
    /\ initialized = TRUE
    /\ schema = FullSchema
    /\ puts = NoPuts

Idle == batch.pc = "idle"

\* a caller that awaits every call before it issues the next one
Next ==
    \/ Idle /\ \E k \in Keys : Get(k)
    \/ Idle /\ \E ks \in SeqsUpTo(Keys, MaxGetMany) : GetMany(ks)
    \/ Idle /\ \E k \in Keys, v \in Values : Put(k, v)
    \/ Idle /\ \E k \in Keys : Del(k)
    \/ Idle /\ \E o \in ClearOpts : Clear(o)
    \/ \E ops \in SeqsUpTo(BatchOps, MaxBatchLen) : BatchStart(ops)
    \/ BatchConnect
    \/ BatchBegin
    \/ BatchOp
    \/ BatchCommit
    \/ BatchRollback

Spec == Init /\ [][Next]_vars

\* readers that do not wait for the writer: get and getMany run while a batch is in flight
NextConc ==
    \/ \E k \in BatchKeys : Get(k)
    \/ \E ks \in SeqsUpTo(BatchKeys, MaxGetMany) : GetMany(ks)
    \/ Idle /\ \E k \in BatchKeys, v \in Values : Put(k, v)
    \/ Idle /\ \E k \in BatchKeys : Del(k)
    \/ \E ops \in SeqsUpTo(BatchOps, MaxBatchLen) : BatchStart(ops)
    \/ BatchConnect
    \/ BatchBegin
    \/ BatchOp
    \/ BatchCommit
    \/ BatchRollback

SpecConc == Init /\ [][NextConc]_vars

\* a fresh database and a store that has not been opened; the caller awaits each call
InitOpen ==
    /\ table = {}
    /\ prev = {}
    /\ shadow = {}
    /\ latest = [k \in Keys |-> undefinedValue]
    /\ last = NoLast
    /\ batch = IdleBatch
    /\ checkedOut = 0
    /\ it = NoIterator
    /\ delivered = <<>>
    /\ initialized = FALSE
    /\ schema = NoSchema
    /\ puts = NoPuts

NextOpen ==
    \/ Open
    \/ Close
    \/ \E k \in Keys : Get(k)
    \/ \E ks \in SeqsUpTo(Keys, MaxGetMany) : GetMany(ks)
    \/ \E k \in Keys, v \in Values : Put(k, v)
    \/ \E k \in Keys : Del(k)

SpecOpen == InitOpen /\ [][NextOpen]_vars

\* keys that another namespace holds too, and a value it does not hold
NsKeys == {KeyA, KeyB}
NsValue == "v"
NsBatchOps == {PutOp(k, NsValue) : k \in NsKeys} \cup {DelOp(k) : k \in NsKeys}
NsClearOpts == {[NoOpts EXCEPT !.limit = l, !.reverse = rv] :
                   l \in {Infinity, Num(1)}, rv \in BOOLEAN}
NsIterOpts == {[NoOpts EXCEPT !.reverse = rv] : rv \in BOOLEAN}

\* every operation of one store on a table another namespace uses; the
\* caller awaits each call
NextNs ==
    \/ Idle /\ \E k \in NsKeys : Get(k)
    \/ Idle /\ \E ks \in SeqsUpTo(NsKeys, MaxGetMany) : GetMany(ks)
    \/ Idle /\ \E k \in NsKeys : Put(k, NsValue)
    \/ Idle /\ \E k \in NsKeys : Del(k)
    \/ Idle /\ \E o \in NsClearOpts : Clear(o)
    \/ \E ops \in SeqsUpTo(NsBatchOps, 1) : BatchStart(ops)
    \/ BatchConnect
    \/ BatchBegin
    \/ BatchOp
    \/ BatchCommit
    \/ BatchRollback
    \/ Idle /\ \E o \in NsIterOpts : IterOpen(o)
    \/ Idle /\ IterNext

SpecNs == Init /\ [][NextNs]_vars

\* the value the key has before the two callers put it, when it has one
OldValue == "old"

\* an opened store; the key a is absent or present
InitPut ==
    /\ \E had \in BOOLEAN :
          /\ table = IF had THEN OtherRows \cup {Row(namespace, KeyA, OldValue)}
                      ELSE OtherRows
          /\ latest = [k \in Keys |-> IF had /\ k = KeyA THEN OldValue ELSE undefinedValue]
    /\ prev = table
    /\ shadow = table
    /\ last = NoLast
    /\ batch = IdleBatch
    /\ checkedOut = 0
    /\ it = NoIterator
    /\ delivered = <<>>
    /\ initialized = TRUE
    /\ schema = FullSchema
    /\ puts = NoPuts

\* two callers put the key a, neither waiting for the other
NextPut ==
    \/ \E c \in Callers, v \in Values : PutCall(c, KeyA, v)
    \/ \E c \in Callers : PutReturn(c)

SpecPut == InitPut /\ [][NextPut]_vars

\* decimal numeral of i (1..999) as a string
Dec(i) ==
    IF i < 10 THEN <<48 + i>>
    ELSE IF i < 100 THEN <<48 + (i \div 10), 48 + (i % 10)>>
    ELSE <<48 + (i \div 100), 48 + ((i \div 10) % 10), 48 + (i % 10)>>

DecimalTable(n) ==
    {Row(namespace, Dec(i), IF i % 2 = 0 THEN "v" ELSE "") : i \in 1..n}
        \cup {Row(OtherNamespace, Dec(1), "x"), Row(OtherNamespace, <<48>>, "x")}

LetterKeys == {KeyA, KeyB, KeyC, KeyD, KeyE}

LetterTable ==
    {Row(namespace, k, IF k = KeyC THEN "" ELSE "v") : k \in LetterKeys} \cup OtherRows

ScanSizes == {49, 50, 100, 120}

LetterBounds == {undefinedKey, KeyB, KeyD, KeyE}

LetterScans ==
    {[table |-> LetterTable,
      opts |-> [gt |-> a, gte |-> b, lt |-> c, lte |-> d, limit |-> l,
                reverse |-> rv, keys |-> fk, values |-> fv]] :
        a \in LetterBounds, b \in LetterBounds, c \in LetterBounds, d \in LetterBounds,
        l \in Limits, rv \in BOOLEAN, fk \in BOOLEAN, fv \in BOOLEAN}

DecimalScans ==
    {[table |-> DecimalTable(n),
      opts |-> [NoOpts EXCEPT !.gt = lo[1], !.gte = lo[2], !.lt = hi[1], !.lte = hi[2],
                              !.reverse = rv]] :
        n \in ScanSizes,
        lo \in {<<undefinedKey, undefinedKey>>, <<Dec(2), undefinedKey>>,
                <<undefinedKey, Dec(2)>>},
        hi \in {<<undefinedKey, undefinedKey>>, <<Dec(5), undefinedKey>>,
                <<undefinedKey, Dec(5)>>},
        rv \in BOOLEAN}

\* limits above the default page size
LargeLimits == {Num(DEFAULT_LIMIT + 1)}

LargeLimitScans ==
    {[table |-> DecimalTable(120),
      opts |-> [NoOpts EXCEPT !.limit = l, !.reverse = rv]] :
        l \in LargeLimits, rv \in BOOLEAN}

InitScan ==
    /\ \E s \in LetterScans \cup DecimalScans \cup LargeLimitScans :
          /\ table = s.table
          /\ it = NewIterator(s.opts)
    /\ prev = table
    /\ shadow = table
    /\ latest = [k \in Keys |-> undefinedValue]
    /\ last = NoLast
    /\ batch = IdleBatch
    /\ checkedOut = 0
    /\ delivered = <<>>
    /\ initialized = TRUE
    /\ schema = FullSchema
    /\ puts = NoPuts

\* a table of two full pages and a part of a third: the key a and the keys
\* b1 .. b110
RaceRows == 2 * DEFAULT_LIMIT + 10
RaceTable ==
    {Row(namespace, KeyB \o Dec(i), "v") : i \in 1..RaceRows}
        \cup {Row(namespace, KeyA, "v")} \cup OtherRows

\* an unbounded ascending scan of the whole namespace
InitRace ==
    /\ table = RaceTable
    /\ it = NewIterator(NoOpts)
    /\ prev = table
    /\ shadow = table
    /\ latest = [k \in Keys |-> IF k = KeyA THEN "v" ELSE undefinedValue]
    /\ last = NoLast
    /\ batch = IdleBatch
    /\ checkedOut = 0
    /\ delivered = <<>>
    /\ initialized = TRUE
    /\ schema = FullSchema
    /\ puts = NoPuts

\* the iterator reads the table only when its buffer is empty
BetweenPages == it.results = <<>>

\* one consumer pulling from the iterator while other callers write without
\* waiting for it: one inserts the key ab, one deletes the key a.  A write
\* that lands while buffered rows are handed out is seen by the scan as one
\* that lands just before the next page query, so the writers are scheduled
\* between pages.
NextRace ==
    \/ IterNext
    \/ BetweenPages /\ Put(KeyAB, "v")
    \/ BetweenPages /\ Del(KeyA)

SpecRace == InitRace /\ [][NextRace]_vars

\* one consumer pulling from one iterator; nobody writes
NextScan == IterNext

SpecScan == InitScan /\ [][NextScan]_vars

\* the consumer goes on calling next() until it has been told the end
SpecScanLive == InitScan /\ [][NextScan]_vars /\ WF_vars(IterNext)

----------------------------------------------------------------------------
(* Properties of the store (Spec, SpecConc) *)

OwnRows(t) == {r \in t : r.namespace = namespace}

\* C2: a batch one of whose statements failed has called back with the error
\* and the table is what it was when the batch started.
C2_FailedBatchReportsAndLeavesTable ==
    (last.op = "batch" /\ last.failed /\ last.err = BackendError) =>
        (last.cb = 1 /\ table = prev)

\* what the last read handed to its caller, one entry per key
ReadResult == IF last.op = "get" THEN <<last.value>> ELSE last.values

\* C3: whatever a get or getMany returns while a batch is running is what the
\* namespace holds with none of the batch's operations applied or with all
\* of them applied, never with a part of them.
C3_ReadsSeeNoneOrAll ==
    (last.op \in {"get", "getMany"} /\ ~last.failed) =>
        ReadResult \in {last.noneView, last.allView}

\* a getMany of two keys ran after a statement of the open transaction, and the
\* batch changes what these keys hold
C3_Witness ==
    /\ last.op = "getMany" /\ ~last.failed
    /\ Len(last.keys) = 2
    /\ last.applied >= 1
    /\ last.noneView # last.allView
    /\ last.values = last.noneView

\* C4: a clear that succeeded removed from the namespace exactly the first
\* min(L, n) matching keys in scan order when its limit L is finite and not
\* negative, every matching key when it has no limit (a negative limit is no
\* limit), and changed no other row.
C4_ClearRemovesFirstMatching ==
    (last.op = "clear" /\ ~last.failed) =>
        LET o == last.opts
            ks == {r.key : r \in OwnRows(prev)}
            gone == FirstMatching(ks, o)
            n == Cardinality({k \in ks : Matches(o, k)})
        IN  /\ table = {r \in prev : r.namespace # namespace \/ r.key \notin gone}
            /\ IsBoundedLimit(o.limit) => Cardinality(prev \ table) = Min(o.limit.n, n)
            /\ ~IsBoundedLimit(o.limit) => Cardinality(prev \ table) = n

\* a reverse clear with limit 1 and an upper bound removed the highest of two
\* matching keys and left the lower one and the key beyond the bound
C4_Witness ==
    /\ last.op = "clear" /\ ~last.failed
    /\ last.opts.limit = Num(1) /\ last.opts.reverse
    /\ last.opts.lt = undefinedKey /\ last.opts.lte = KeyAB
    /\ {r.key : r \in OwnRows(prev)} = Keys
    /\ {r.key : r \in OwnRows(table)} = {KeyA, KeyB}

\* C5: the namespace holds at most one row per key, the row of a key holds the
\* value of the most recent put of that key not followed by a delete or
\* clear of it (operations of a batch counted in list order), and that is
\* what get returns.
C5_OneRowPerKeyLatestValue ==
    /\ \A k \in Keys :
          /\ Cardinality(SelectValue(table, namespace, k)) <= 1
          /\ View(table, <<k>>) = <<latest[k]>>
    /\ (last.op = "put" /\ ~last.failed) =>
          SelectValue(table, namespace, last.key) = {Row(namespace, last.key, last.value)}
    /\ (last.op = "get" /\ ~last.failed /\ latest[last.key] # undefinedValue) =>
          (last.err = NoError /\ last.value = latest[last.key])

\* a put has overwritten the different value an earlier put had stored
C5_Witness ==
    /\ last.op = "put" /\ ~last.failed
    /\ \E r \in prev : r.namespace = namespace /\ r.key = last.key /\ r.value # last.value
    /\ Cardinality(SelectValue(table, namespace, last.key)) = 1

\* C6: get of a key the namespace does not hold fails with LEVEL_NOT_FOUND and
\* hands out no value; get of a key it holds succeeds, also when the value is
\* the empty string; a get whose query failed reports another error.
C6_MissingKeyIsNotFound ==
    last.op = "get" =>
        /\ last.cb = 1
        /\ last.failed => last.err \notin {NoError, LEVEL_NOT_FOUND}
        /\ (~last.failed /\ latest[last.key] = undefinedValue) =>
              (last.err = LEVEL_NOT_FOUND /\ last.value = undefinedValue)
        /\ (~last.failed /\ latest[last.key] # undefinedValue) =>
              (last.err = NoError /\ last.value \in Values)

\* get of a missing key failed while the namespace holds other keys
C6_Witness ==
    /\ last.op = "get" /\ last.err = LEVEL_NOT_FOUND
    /\ Cardinality(OwnRows(table)) = 2
    /\ \E r \in OwnRows(table) : r.value = ""

\* C7: getMany returns one entry per requested key, in the order of the
\* request: the stored value, or undefined for a key the namespace does not
\* hold; it issues one query, none for the empty list.
C7_GetManyKeepsOrderAndLength ==
    last.op = "getMany" =>
        /\ last.cb = 1
        /\ last.queries <= 1
        /\ ~last.failed =>
              /\ Len(last.values) = Len(last.keys)
              /\ \A i \in 1..Len(last.keys) : last.values[i] = latest[last.keys[i]]
              /\ last.queries = IF Len(last.keys) = 0 THEN 0 ELSE 1

\* two keys were requested, the first missing and the second stored
C7_Witness ==
    /\ last.op = "getMany" /\ ~last.failed
    /\ Len(last.keys) = 2
    /\ last.values[1] = undefinedValue
    /\ last.values[2] \in Values

\* C12: a delete that succeeded reports no error, leaves no row for its key and
\* changes no other row; when the key was absent the table is unchanged, so
\* a second delete of the same key changes nothing more.
C12_DeleteIsIdempotent ==
    (last.op = "del" /\ ~last.failed) =>
        /\ last.err = NoError /\ last.cb = 1
        /\ table = {r \in prev : ~(r.namespace = namespace /\ r.key = last.key)}
        /\ SelectValue(table, namespace, last.key) = {}
        /\ SelectValue(prev, namespace, last.key) = {} => table = prev

\* a key that was absent was deleted while the namespace holds other keys
C12_Witness ==
    /\ last.op = "del" /\ ~last.failed
    /\ SelectValue(prev, namespace, last.key) = {}
    /\ table = prev
    /\ Cardinality(OwnRows(table)) = 2

\* C13: a batch that committed left every key of the namespace as the last
\* operation of the batch naming it says (present with the value of a put,
\* absent after a del), left a key no operation names as it was before the
\* batch, and changed no row of another namespace.
C13_BatchAppliesInListOrder ==
    (last.op = "batch" /\ ~last.failed) =>
        /\ \A k \in Keys :
              View(table, <<k>>) = <<LastNaming(last.ops, k, View(prev, <<k>>)[1])>>
        /\ \A k \in Keys : Cardinality(SelectValue(table, namespace, k)) <= 1
        /\ {r \in table : r.namespace # namespace} = {r \in prev : r.namespace # namespace}

\* a batch that put a key and then deleted it has committed, the key being
\* absent before and after
C13_Witness ==
    /\ last.op = "batch" /\ ~last.failed
    /\ Len(last.ops) = 2
    /\ last.ops[1].type = "put" /\ last.ops[2].type = "del"
    /\ last.ops[1].key = last.ops[2].key
    /\ SelectValue(prev, namespace, last.ops[1].key) = {}
    /\ SelectValue(table, namespace, last.ops[1].key) = {}
    /\ OwnRows(table) # {}

\* C14: a call that sent a statement on the table found the schema
\* initialisation completed, and a call made while it is not completed
\* attempts the initialisation again.
C14_NoStatementBeforeInitialized ==
    (last.op \in {"get", "getMany", "put", "del"}) =>
        /\ last.queries >= 1 => initialized
        /\ ~initialized => last.ddl >= 1

\* C17: the flag is set only by a call whose two statements both succeeded;
\* a failing call reports the error and leaves the flag unset; a call that
\* finds the flag unset issues the statements; a call that finds it set issues
\* none and reports success; the flag is never reset.
C17_FlagFollowsBothStatements ==
    [][ /\ initialized => initialized'
        /\ (~initialized /\ initialized') =>
              /\ last'.op = "open" /\ last'.ddl = 2 /\ last'.err = NoError
              /\ schema' = FullSchema
        /\ last'.op = "open" =>
              /\ last'.cb = 1
              /\ last'.err # NoError => ~initialized'
              /\ last'.err = NoError => initialized'
              /\ ~initialized => last'.ddl >= 1
              /\ initialized => (last'.ddl = 0 /\ last'.err = NoError)
      ]_vars

\* the index statement failed after the table statement had succeeded
C17_Witness ==
    /\ last.op = "open" /\ last.err = BackendError /\ last.ddl = 2
    /\ schema.table /\ ~schema.index
    /\ ~initialized

\* C15: the rows of another namespace are as they were whatever the store
\* has done, and no get, getMany or scan has returned a value of theirs.
C15_OtherNamespacesUntouched ==
    LET OtherValues == {r.value : r \in OtherRows}
    IN  /\ {r \in table : r.namespace # namespace} = OtherRows
        /\ last.op = "get" => last.value \notin OtherValues
        /\ last.op = "getMany" =>
              \A i \in 1..Len(last.values) : last.values[i] \notin OtherValues
        /\ \A i \in 1..Len(delivered) : delivered[i].value \notin OtherValues
        /\ Len(delivered) <= Cardinality(NsKeys)

\* a scan has delivered the two rows of the namespace and an unbounded clear
\* has then removed them, next to the rows another namespace has for the same keys
C15_Witness ==
    /\ last.op = "clear" /\ ~last.failed /\ ~IsBoundedLimit(last.opts.limit)
    /\ Cardinality(OwnRows(prev)) = 2
    /\ OwnRows(table) = {}
    /\ Len(delivered) = 2
    /\ {r.key : r \in OtherRows} = NsKeys

\* C18: a batch holds exactly one connection from its checkout until it ends
\* and none afterwards, however it ended (commit, rollback, failed rollback);
\* an empty batch succeeds with no checkout and no statement.
C18_ConnectionReleasedOnce ==
    /\ checkedOut = IF batch.pc \in {"begin", "ops", "commit", "rollback"} THEN 1 ELSE 0
    /\ (last.op = "batch" /\ ~last.failed /\ last.ops = <<>>) =>
            /\ last.err = NoError /\ last.cb = 1 /\ last.queries = 0
            /\ table = prev

\* a batch whose ROLLBACK failed has ended and holds no connection
C18_Witness ==
    /\ last.op = "batch" /\ last.failed /\ last.err = BackendError /\ last.cb = 0
    /\ batch.pc = "idle"
    /\ checkedOut = 0

\* C19: every finished call has called back exactly once, with the error of
\* the backend or the pool when a statement or the checkout failed and with
\* no error otherwise (a get of a missing key reports LEVEL_NOT_FOUND).
C19_CallbackExactlyOnce ==
    (last.op \in {"get", "getMany", "put", "del", "clear", "batch"}) =>
        /\ last.cb = 1
        /\ last.failed => last.err \in {BackendError, PoolError}
        /\ ~last.failed =>
              \/ last.err = NoError
              \/ last.op = "get" /\ last.err = LEVEL_NOT_FOUND

----------------------------------------------------------------------------
(* Properties of a scan (SpecScan) *)

\* the rows of the namespace the range of the scan selects
ScanMatching == {r \in table : r.namespace = namespace /\ Matches(it.opts, r.key)}

\* the pair the consumer is to receive for a row
Produced(o, r) ==
    [key |-> IF o.keys THEN r.key ELSE undefinedKey,
     value |-> IF o.values THEN r.value ELSE undefinedValue]

\* the scan has reported end-of-sequence and no page query failed
ScanDone == it.finished /\ ~it.failed

UnboundedScan == ~IsBoundedLimit(it.opts.limit)

DeliveredKeys == {delivered[i].key : i \in DOMAIN delivered}

\* C1: on an unmodified table every pair handed out is a matching row of the
\* namespace and comes after the pair before it in scan order; when a scan
\* without a limit that produces keys or values has ended without a failed
\* query, the pairs handed out are exactly the matching rows in scan order,
\* each once, followed by end-of-sequence.
C1_EachMatchingRowOnceInOrder ==
    /\ (it.opts.keys /\ Len(delivered) >= 1) =>
          LET d == delivered[Len(delivered)]
          IN  /\ Matches(it.opts, d.key)
              /\ \E r \in table : r.namespace = namespace /\ Produced(it.opts, r) = d
              /\ Len(delivered) >= 2 =>
                    ScansBefore(it.opts, delivered[Len(delivered) - 1].key, d.key)
    /\ (ScanDone /\ UnboundedScan /\ (it.opts.keys \/ it.opts.values)) =>
          LET ord == OrderBy(ScanMatching, it.opts.reverse)
          IN  /\ Len(delivered) = Cardinality(ScanMatching)
              /\ delivered = [i \in 1..Len(ord) |-> Produced(it.opts, ord[i])]
              /\ it.results = <<>>
              /\ it.cb = EndCallback

\* a descending scan with a lower bound that needed more than one page has ended
C1_Witness ==
    /\ ScanDone /\ UnboundedScan
    /\ it.opts.reverse /\ it.opts.gt # undefinedKey
    /\ it.pages >= 2
    /\ Len(delivered) > DEFAULT_LIMIT
    /\ Cardinality(ScanMatching) < Cardinality({r \in table : r.namespace = namespace})

\* C8 as stated: a key is delivered exactly when it satisfies every bound that is set
C8_StatedBounds ==
    (ScanDone /\ UnboundedScan /\ it.opts.keys) =>
        \A r \in table :
            r.namespace = namespace =>
                (r.key \in DeliveredKeys <=> StatedMatches(it.opts, r.key))

GteBLtE == [NoOpts EXCEPT !.gte = KeyB, !.lt = KeyE]

\* C8 (amended): a key is delivered by a complete scan exactly when it satisfies
\* the lower bound (gt if set, otherwise gte if set) and the upper bound (lt if
\* set, otherwise lte if set), inclusive and exclusive as named; {gte: b, lt: e}
\* over a..e yields b, c, d, and d, c, b in reverse.
C8_BoundsWithPrecedence ==
    (ScanDone /\ UnboundedScan /\ it.opts.keys) =>
        /\ \A r \in table :
              r.namespace = namespace =>
                  (r.key \in DeliveredKeys <=> Matches(it.opts, r.key))
        /\ \A k \in DeliveredKeys : \E r \in table : r.namespace = namespace /\ r.key = k
        /\ (table = LetterTable /\ it.opts.values /\ it.opts = GteBLtE) =>
              [i \in 1..Len(delivered) |-> delivered[i].key] = <<KeyB, KeyC, KeyD>>
        /\ (table = LetterTable /\ it.opts.values
                /\ it.opts = [GteBLtE EXCEPT !.reverse = TRUE]) =>
              [i \in 1..Len(delivered) |-> delivered[i].key] = <<KeyD, KeyC, KeyB>>

\* the reverse scan {gte: b, lt: e} over a..e has ended with its three keys
C8_Witness ==
    /\ ScanDone
    /\ table = LetterTable
    /\ it.opts = [GteBLtE EXCEPT !.reverse = TRUE]
    /\ Len(delivered) = 3

\* C9 as stated: 120 matching keys are delivered with exactly 3 page queries
C9_ThreePageQueries ==
    (ScanDone /\ UnboundedScan /\ Cardinality(ScanMatching) = 120) =>
        (Len(delivered) = 120 /\ it.queries = 3)

\* C9 (amended): a scan without a limit over n matching keys delivers n keys
\* from the ceil(n / 50) pages that hold rows and issues one more page query,
\* which returns no row, before end-of-sequence; for 120 keys: 3 pages with
\* rows, 4 page queries.
C9_PagesPlusOneEmptyQuery ==
    (ScanDone /\ UnboundedScan) =>
        LET n == Cardinality(ScanMatching)
        IN  /\ Len(delivered) = n
            /\ it.pages = (n + DEFAULT_LIMIT - 1) \div DEFAULT_LIMIT
            /\ it.queries = it.pages + 1
            /\ it.offset = it.pages * DEFAULT_LIMIT
            /\ n = 120 => (it.pages = 3 /\ it.queries = 4)

\* the scan over 120 keys has ended
C9_Witness ==
    /\ ScanDone /\ UnboundedScan
    /\ Cardinality(ScanMatching) = 120
    /\ Len(delivered) = 120
    /\ it.queries = 4

\* C10: the next() whose page query fails calls back with end-of-sequence and
\* no error, exactly as an exhausted scan does, and leaves the iterator
\* terminal; every later next() does the same and hands out nothing more.
C10_FailureEndsScanSilently ==
    [][it'.failed =>
          /\ it'.finished
          /\ it'.cb = EndCallback
          /\ it'.cb.error = NoError
          /\ it'.ends = it.ends + 1
          /\ delivered' = delivered
          /\ it.failed => (it'.queries = it.queries /\ it'.results = it.results)]_vars

\* a scan failed on a later page and next() was called again afterwards
C10_Witness ==
    /\ it.failed
    /\ it.ends = 2
    /\ it.pages >= 1
    /\ Len(delivered) >= 1

\* C11: a scan with a finite limit L never hands out more than L pairs, and
\* when it has ended without a failed query it has handed out min(L, n) of
\* the n matching rows.
C11_LimitBoundsDelivered ==
    IsBoundedLimit(it.opts.limit) =>
        /\ Len(delivered) <= it.opts.limit.n
        /\ ScanDone => Len(delivered) = Min(it.opts.limit.n, Cardinality(ScanMatching))

\* C16: every page query asks for at most DEFAULT_LIMIT rows: DEFAULT_LIMIT
\* when the limit is unbounded or larger, the limit itself when it is finite
\* and not larger.
C16_PageSizeAtMostDefault ==
    (it.queries >= 1) =>
        /\ it.resultLimit <= DEFAULT_LIMIT
        /\ it.resultLimit =
              IF IsBoundedLimit(it.opts.limit) /\ it.opts.limit.n <= DEFAULT_LIMIT
              THEN it.opts.limit.n ELSE DEFAULT_LIMIT

\* C16 as the code has it: every page query asks for the limit itself when
\* the limit is finite and not negative, however large, and for DEFAULT_LIMIT
\* otherwise; a page holds no more rows than that.
C16_PageSizeIsLimitOrDefault ==
    (it.queries >= 1) =>
        /\ it.resultLimit =
              IF IsBoundedLimit(it.opts.limit) THEN it.opts.limit.n ELSE DEFAULT_LIMIT
        /\ Len(it.results) <= it.resultLimit
        /\ it.offset = it.pages * it.resultLimit

\* a page of more than DEFAULT_LIMIT rows has been fetched
C16_Witness ==
    /\ IsBoundedLimit(it.opts.limit) /\ it.opts.limit.n > DEFAULT_LIMIT
    /\ it.pages = 1
    /\ Len(it.results) = DEFAULT_LIMIT

\* the rows the scan started on that are still there (no writer puts a row back)
PresentThroughout == OwnRows(RaceTable) \cap table

\* a row that was there during the whole scan was not handed out
SkippedRow ==
    LET handedOut == DeliveredKeys
    IN  \E r \in PresentThroughout : r.key \notin handedOut

\* a key was handed out twice
DuplicatedKey == Cardinality(DeliveredKeys) < Len(delivered)

\* C20: a scan that has ended on a table no writer touched has handed out
\* every row once, in order; a scan that has skipped a row which was present
\* throughout ran while a lower key was deleted, and one that has handed out
\* a key twice ran while a key was inserted.
C20_ExactlyOnceOnlyUnmodified ==
    ScanDone =>
        /\ OwnRows(table) = OwnRows(RaceTable) =>
              LET ord == OrderBy(OwnRows(RaceTable), it.opts.reverse)
              IN  delivered = [i \in 1..Len(ord) |-> Produced(it.opts, ord[i])]
        /\ SkippedRow => SelectValue(table, namespace, KeyA) = {}
        /\ DuplicatedKey => SelectValue(table, namespace, KeyAB) # {}

\* one scan has ended after it delivered a key twice (the insert of ab came
\* after the first page) and skipped a row that was present throughout (the
\* delete of a came after the second page)
C20_Witness ==
    /\ ScanDone
    /\ ~it.opts.reverse
    /\ DuplicatedKey
    /\ SkippedRow
    /\ Len(delivered) = RaceRows + 1

\* the page the query of this step returns when it does not fail
PageNow == SelectPage(table, it.opts, namespace, it.resultLimit, it.offset)

\* C21: every next() follows the state machine.  Terminal: end-of-sequence,
\* no query, terminal for ever.  A page query is issued exactly when the
\* buffer is empty and the iterator is not terminal, one per next().  An empty
\* page or a failed query makes the iterator terminal and leaves the offset;
\* a non-empty page adds the page size to the offset.  Every pair handed out
\* is the oldest one of the buffer.
C21_NextFollowsStateMachine ==
    [][ LET q == it'.queries - it.queries
            page == PageNow
        IN  /\ q \in {0, 1}
            /\ q = 1 <=> (~it.finished /\ it.results = <<>>)
            /\ it.finished =>
                  /\ it'.finished /\ it'.cb = EndCallback
                  /\ delivered' = delivered
                  /\ it'.offset = it.offset /\ it'.results = it.results
            /\ (~it.finished /\ it.results # <<>>) =>
                  /\ delivered' = Append(delivered, it.results[1])
                  /\ it'.results = Tail(it.results)
                  /\ it'.offset = it.offset /\ ~it'.finished
            /\ (q = 1 /\ (it'.failed \/ page = <<>>)) =>
                  /\ it'.finished /\ it'.cb = EndCallback
                  /\ delivered' = delivered
                  /\ it'.offset = it.offset /\ it'.results = <<>>
            /\ (q = 1 /\ ~it'.failed /\ page # <<>>) =>
                  /\ ~it'.finished
                  /\ it'.offset = it.offset + it.resultLimit
                  /\ delivered' = Append(delivered, Produced(it.opts, page[1]))
                  /\ it'.results =
                        [i \in 1..(Len(page) - 1) |-> Produced(it.opts, page[i + 1])]
      ]_vars

\* a scan of more than one page has ended on an empty page and next() has been
\* called once more on the terminal iterator
C21_Witness ==
    /\ it.finished /\ ~it.failed
    /\ it.ends = 2
    /\ it.pages >= 2
    /\ it.queries = it.pages + 1
    /\ it.offset = it.pages * it.resultLimit

\* both callers have had their callback
BothPutsDone == \A c \in Callers : puts[c].pc = "done"

\* C22: no put fails with a uniqueness violation and the key never has two
\* rows; when two puts of the key have both been called back without a
\* backend failure, the key has one row and it holds the value of one of them.
C22_ConcurrentPutsLeaveOneRow ==
    /\ \A c \in Callers : puts[c].err # UniqueViolation
    /\ \A k \in Keys : Cardinality(SelectValue(table, namespace, k)) <= 1
    /\ (BothPutsDone /\ puts[1].key = puts[2].key) =>
          LET rows == SelectValue(table, namespace, puts[1].key)
          IN  /\ (\E c \in Callers : puts[c].err = NoError) =>
                    /\ Cardinality(rows) = 1
                    /\ \E c \in Callers, r \in rows :
                          puts[c].err = NoError /\ r.value = puts[c].value
              /\ (\A c \in Callers : puts[c].err # NoError) => table = prev

\* two puts of the key with different values were under way at the same time
\* and both have succeeded, the key having had a row before
C22_Witness ==
    /\ BothPutsDone
    /\ \A c \in Callers : puts[c].raced /\ puts[c].err = NoError
    /\ puts[1].key = puts[2].key
    /\ puts[1].value # puts[2].value
    /\ Cardinality(SelectValue(table, namespace, puts[1].key)) = 1
    /\ SelectValue(prev, namespace, puts[1].key) # {}

\* the keys clear(predicate) would remove from the table the scan ran on
ClearWouldRemove == {r.key : r \in ClearTargets(table, it.opts, namespace)}

\* C23: a complete scan that produces keys has handed out exactly the keys
\* that clear with the same bounds, direction and limit removes from the
\* same table.
C23_ClearSetEqualsScanSet ==
    (ScanDone /\ it.opts.keys) => DeliveredKeys = ClearWouldRemove

\* C24: on a table nobody writes, a consumer that keeps calling next() is told
\* the end after finitely many calls, and the iterator is terminal from then
\* on, whatever the bounds, the limit and the number of matching rows, and
\* also when a page query fails.
C24_ScanTerminates == <>[](it.finished /\ it.cb = EndCallback)

\* a scan of three pages has ended after a page query of a later page failed
C24_Witness ==
    /\ it.finished /\ it.failed
    /\ it.cb = EndCallback
    /\ it.pages = 2
    /\ it.queries = 3
    /\ Len(delivered) = 2 * DEFAULT_LIMIT

====
